---- MODULE Spec2Model ----
(***************************************************************************)
(* A model of JSONtoMySQL.py: the JSON -> MySQL importer (JSONtoMySQL) and *)
(* the MySQL -> batched JSON exporter (MySQLToJSON).                       *)
(*                                                                         *)
(* Three specifications share the variables:                               *)
(*   Spec        one run of JSONtoMySQL.import_directory                   *)
(*   SpecExport  one run of MySQLToJSON.export_to_json_files               *)
(*   SpecSchema  the schema computation of create_table_from_json, applied *)
(*               to bounded record lists and their permutations            *)
(***************************************************************************)
EXTENDS Integers, Sequences, FiniteSets, TLC

VARIABLES
    \* ---- JSONtoMySQL.import_directory
    pc,                  \* position of the run: "loop", "done", "raised"
    json_files,          \* the directory listing (table-name stems, in listing order)
    idx,                 \* number of files of the listing already handled
    durable,             \* the database as committed (what survives the connection)
    session,             \* the database as the connection's transaction sees it
    connAlive,           \* whether the connection is still usable
    successful_imports,  \* import_directory's list of successes
    failed_imports,      \* import_directory's list of failures
    calls,               \* one entry per import_json_file call made so far
    summary,             \* the dictionary import_directory returns
    \* ---- MySQLToJSON.export_to_json_files
    xpc,                 \* "start", "batch", "done"
    table,               \* rows of PostScript_AllianceMerge_NEW
    batch_size,          \* the batch_size argument
    total_entities,
    num_files,
    file_num,            \* the loop variable of the batch loop
    files_created,       \* the local list files_created
    disk,                \* output directory: file name -> document
    batches,             \* per finished batch: the entity_ids and records fetched
    result,              \* the dictionary export_to_json_files returns
    queries,             \* the queries sent to the server, in order
    \* ---- create_table_from_json on a record list and a permutation of it
    spc,                 \* "input", "built"
    json_data,           \* a record list
    permuted,            \* the same records in another order
    schema,              \* the columns computed for json_data
    schemaPermuted,      \* the columns computed for permuted
    \* ---- _determine_column_type on the values of one column
    tpc,                 \* "input", "typed"
    column_values,       \* the values argument
    column_type,         \* the type returned
    \* ---- TmpAllianceExporter.export_to_files
    apc,                 \* "start", "csv", "json", "rename_csv", "rename_json", "done"
    tmp_Alliance,        \* the rows of the table, in the order of the SELECT
    alliance_data,       \* the rows fetched (the local data)
    directory,           \* the output directory: file name -> content
    alliance_result,     \* the dictionary export_to_files returns
    \* ---- build_json_structure on a row sequence in any order
    gpc,                 \* "input", "built"
    input_records,       \* the records argument
    document,            \* the structure returned
    \* ---- ImporterGUI: the Tk main loop and the threads it starts
    connection_verified, \* self.connection_verified
    directory_var,       \* whether the working directory field is non-empty
    conn_fields,         \* the content of the five connection fields
    operation_btns,      \* state of execute_btn, export_btn, tmp_alliance_btn
    test_conn_btn,       \* state of test_conn_btn
    tests,               \* the running run_connection_test threads
    workers,             \* the running operation threads, by kind
    verified_with        \* the field content of the last successful test

importVars == <<pc, json_files, idx, durable, session, connAlive,
                successful_imports, failed_imports, calls, summary>>
exportVars == <<xpc, table, batch_size, total_entities, num_files, file_num,
                files_created, disk, batches, result, queries>>
schemaVars == <<spc, json_data, permuted, schema, schemaPermuted>>
inferVars == <<tpc, column_values, column_type>>
allianceVars == <<apc, tmp_Alliance, alliance_data, directory, alliance_result>>
groupVars == <<gpc, input_records, document>>
guiVars == <<connection_verified, directory_var, conn_fields, operation_btns, test_conn_btn,
             tests, workers, verified_with>>
vars == <<importVars, exportVars, schemaVars, inferVars, allianceVars, groupVars, guiVars>>

(***************************************************************************)
(* Bounds of the model.                                                    *)
(***************************************************************************)
MaxFiles == 3        \* files in the directory listing
MaxRecs == 2         \* records in a generated record list
MaxEntity == 3       \* EntityID values 1..MaxEntity
MaxBatch == 3        \* batch sizes 1..MaxBatch
MaxValues == 3       \* values in a generated column
MaxRows == 2         \* rows of tmp_Alliance
MaxGroupRows == 3    \* rows given to build_json_structure
MaxFieldValues == 2  \* contents of the connection fields
MaxThreads == 2      \* threads of one kind running at a time

(***************************************************************************)
(* JSON values as a closed tagged union.  The payload p is a sequence of   *)
(* naturals: empty for null, <<0>>/<<1>> for a boolean, <<sign>> followed  *)
(* by the big-endian base-65536 limbs of the magnitude for an integer (no  *)
(* leading zero limb; Python integers are unbounded), <<id>> for a float,  *)
(* <<length>> for a string and <<size>> for a nested dict or list.         *)
(***************************************************************************)
Null == [tag |-> "null", p |-> <<>>]
Bool(b) == [tag |-> "bool", p |-> <<IF b THEN 1 ELSE 0>>]
IntPos(mag) == [tag |-> "int", p |-> <<0>> \o mag]
IntNeg(mag) == [tag |-> "int", p |-> <<1>> \o mag]
Float(id) == [tag |-> "float", p |-> <<id>>]
Str(len) == [tag |-> "str", p |-> <<len>>]
Dict(size) == [tag |-> "dict", p |-> <<size>>]
List(size) == [tag |-> "list", p |-> <<size>>]

\* abs(v) of an integer value: its limbs without the sign.
Mag(v) == SubSeq(v.p, 2, Len(v.p))

\* a >= b on magnitudes (big-endian limbs, no leading zeros).
RECURSIVE MagGE(_, _)
MagGE(a, b) ==
    IF Len(a) # Len(b) THEN Len(a) > Len(b)
    ELSE IF Len(a) = 0 THEN TRUE
    ELSE IF a[1] # b[1] THEN a[1] > b[1]
    ELSE MagGE(Tail(a), Tail(b))

\* 2147483648 = 2^31 = 32768 * 65536
Two31 == <<32768, 0>>

\* Python truthiness, as used by "if not json_data" and "if record[...]".
Truthy(v) ==
    CASE v.tag = "null" -> FALSE
      [] v.tag = "int" -> Len(v.p) > 1
      [] OTHER -> v.p[1] # 0

(***************************************************************************)
(* Field names are strings, modelled as sequences of code points; Python   *)
(* compares strings by code point, position by position.                   *)
(***************************************************************************)
KeyA == <<97>>             \* "a"
KeyAB == <<97, 98>>        \* "ab"
KeyB == <<98>>             \* "b"
KeyUpperB == <<66>>        \* "B"
KeyId == <<105, 100>>      \* "id"

RECURSIVE StrLess(_, _)
StrLess(a, b) ==
    IF Len(b) = 0 THEN FALSE
    ELSE IF Len(a) = 0 THEN TRUE
    ELSE IF a[1] # b[1] THEN a[1] < b[1]
    ELSE StrLess(Tail(a), Tail(b))

\* sorted(list(S)) for a set of strings.
RECURSIVE Sorted(_)
Sorted(S) ==
    IF S = {} THEN <<>>
    ELSE LET m == CHOOSE x \in S : \A y \in S \ {x} : StrLess(x, y)
         IN <<m>> \o Sorted(S \ {m})

Range(s) == {s[i] : i \in DOMAIN s}

(***************************************************************************)
(* _determine_column_type                                                  *)
(***************************************************************************)
IsNonNull(v) == v.tag # "null"
\* A variant of the nested test that knows objects only.
IsDictOnly(v) == v.tag = "dict"
IsNested(v) == v.tag \in {"dict", "list"}
IsStr(v) == v.tag = "str"
IsFloat(v) == v.tag = "float"
\* A variant of the integer test without "not isinstance(v, bool)": in
\* Python a boolean is an int.
IsIntegerOrBool(v) == v.tag \in {"int", "bool"}
\* isinstance(v, int) and not isinstance(v, bool)
IsInteger(v) == v.tag = "int"
IsBool(v) == v.tag = "bool"

MaxLength(strs) ==
    IF strs = {} THEN 0
    ELSE CHOOSE n \in {v.p[1] : v \in strs} : \A v \in strs : v.p[1] <= n

\* A variant of the magnitude of the integers with min in place of max.
MinValue(ints) ==
    CHOOSE m \in {Mag(v) : v \in ints} : \A v \in ints : MagGE(Mag(v), m)

\* max(abs(v) for v in integers) (line 97)
MaxValue(ints) ==
    CHOOSE m \in {Mag(v) : v \in ints} : \A v \in ints : MagGE(m, Mag(v))

\* A variant of the integer threshold with > in place of >=.
IntegerTypeStrict(integers) ==
    IF MagGE(MaxValue(integers), Two31) /\ MaxValue(integers) # Two31
    THEN "BIGINT" ELSE "INT"

IntegerType(integers) ==
    IF MagGE(MaxValue(integers), Two31) THEN "BIGINT" ELSE "INT"

\* A variant of the string threshold with >= in place of >.
StringTypeFrom255(strs) ==
    IF MaxLength(strs) >= 255 THEN "TEXT" ELSE "VARCHAR(255)"

StringType(strs) ==
    IF MaxLength(strs) > 255 THEN "TEXT" ELSE "VARCHAR(255)"

\* A variant of the float test with all() in place of any().
AllFloat(non_null_values) == \A v \in non_null_values : IsFloat(v)

\* has_float (line 90)
HasFloat(non_null_values) == \E v \in non_null_values : IsFloat(v)

\* A variant of the type of an all-null column.
NullColumnTypeVarchar == "VARCHAR(255)"

\* The type of a column without any non-null value (lines 74-75).
NullColumnType == "TEXT"

determine_column_type(values) ==
    LET non_null_values == {v \in Range(values) : IsNonNull(v)}
        integers == {v \in non_null_values : IsInteger(v)}
    IN  IF non_null_values = {} THEN NullColumnType
        ELSE IF \E v \in non_null_values : IsNested(v) THEN "JSON"
        ELSE IF \E v \in non_null_values : IsStr(v)
            THEN StringType({v \in non_null_values : IsStr(v)})
        ELSE IF HasFloat(non_null_values) THEN "DOUBLE"
        ELSE IF integers # {} THEN IntegerType(integers)
        ELSE IF \E v \in non_null_values : IsBool(v) THEN "BOOLEAN"
        ELSE "TEXT"

(***************************************************************************)
(* Records (JSON objects) are functions from a set of field names to       *)
(* values.  An item of a parsed array is a record or something else.       *)
(***************************************************************************)
EmptyRecord == [k \in {} |-> Null]
DictItem(fields) == [isdict |-> TRUE, fields |-> fields]
NonDictItem == [isdict |-> FALSE, fields |-> EmptyRecord]

\* record.get(key)
Get(record, key) == IF key \in DOMAIN record THEN record[key] ELSE Null

\* all_keys (lines 133-135)
AllKeys(data) == UNION {DOMAIN data[i].fields : i \in DOMAIN data}

\* the keys in the order in which the records first mention them
RECURSIVE FirstSeen(_, _)
FirstSeen(data, seen) ==
    IF data = <<>> THEN <<>>
    ELSE LET new == DOMAIN Head(data).fields \ seen
         IN Sorted(new) \o FirstSeen(Tail(data), seen \cup new)

\* A variant of sorted_columns without the sort.
UnsortedColumns(data) == FirstSeen(data, {})

\* sorted_columns (line 138)
SortedColumns(data) == Sorted(AllKeys(data))

\* column_types[key] (lines 142-146)
ColumnType(data, key) ==
    determine_column_type([i \in DOMAIN data |-> Get(data[i].fields, key)])

\* columns_sql (lines 150-151): the id column, then one column per key.
IdColumn == [name |-> KeyId, type |-> "BIGINT AUTO_INCREMENT PRIMARY KEY"]

ColumnsSql(data) ==
    LET cols == SortedColumns(data)
    IN <<IdColumn>> \o [i \in DOMAIN cols |->
                          [name |-> cols[i], type |-> ColumnType(data, cols[i])]]

\* A variant of values that takes each record's own values, in the order of
\* its own keys, instead of looking every schema column up in the record.
InsertValuesOwnKeys(data, columns) ==
    [i \in DOMAIN data |->
        LET own == Sorted(DOMAIN data[i].fields)
        IN [c \in DOMAIN own |-> data[i].fields[own[c]]]]

\* values (lines 190-193): one tuple per record, one value per column.
InsertValues(data, columns) ==
    [i \in DOMAIN data |-> [c \in DOMAIN columns |-> Get(data[i].fields, columns[c])]]

(***************************************************************************)
(* The MySQL database behind the connection (autocommit off, InnoDB).      *)
(* durable is the committed database, session is what the connection's     *)
(* open transaction sees.  DROP TABLE and CREATE TABLE are DDL: MySQL       *)
(* commits the open transaction when it executes them, and they cannot be  *)
(* rolled back.  The batched INSERT is one statement of the transaction.   *)
(***************************************************************************)
NoTable == [columns |-> <<>>, rows |-> <<>>, exists |-> FALSE]
NewTable(columns) == [columns |-> columns, rows |-> <<>>, exists |-> TRUE]

\* A table some earlier import created: "id" and "b", one row.
OldTable == [columns |-> <<IdColumn, [name |-> KeyB, type |-> "INT"]>>,
             rows |-> << <<IntPos(<<9>>)>> >>,
             exists |-> TRUE]

DB(d, s) == [durable |-> d, session |-> s]

\* cursor.execute(drop_sql) (lines 154-155)
ExecDrop(db, t) ==
    LET s == [db.session EXCEPT ![t] = NoTable] IN DB(s, s)

\* cursor.execute(create_sql) (lines 159-160)
ExecCreate(db, t, columns) ==
    LET s == [db.session EXCEPT ![t] = NewTable(columns)] IN DB(s, s)

\* MySQL rejects a CREATE TABLE that names a column twice (error 1060).
CreateRejected(columns) ==
    \E i, j \in DOMAIN columns : i # j /\ columns[i].name = columns[j].name

\* cursor.executemany(insert_sql, values) (line 196)
ExecInsert(db, t, values) ==
    DB(db.durable, [db.session EXCEPT ![t].rows = @ \o values])

\* connection.commit() (line 243)
Commit(db) == DB(db.session, db.session)

\* connection.rollback() (lines 251, 258)
Rollback(db) == DB(db.durable, db.durable)

\* What the server does when the connection is lost: the open transaction
\* is rolled back.
Lost(db) == DB(db.durable, db.durable)

(***************************************************************************)
(* import_json_file.  The parsed input of a file is                        *)
(*   kind "malformed": json.load raises JSONDecodeError                    *)
(*   kind "list": an array, items its members                              *)
(*   kind "dict": one object, items = <<that object>>                      *)
(*   kind "scalar": a number, string, boolean or null; truthy says which   *)
(* A fault says at which storage call of this run, if any, the storage     *)
(* raises, and whether the connection is lost by it.                       *)
(***************************************************************************)
Malformed == [kind |-> "malformed", items |-> <<>>, truthy |-> FALSE]
Array(items) == [kind |-> "list", items |-> items, truthy |-> items # <<>>]
Object(fields) == [kind |-> "dict", items |-> <<DictItem(fields)>>,
                   truthy |-> DOMAIN fields # {}]
Scalar(v) == [kind |-> "scalar", items |-> <<>>, truthy |-> Truthy(v)]

NoFault == [at |-> "none", lost |-> FALSE]
Faults == {NoFault} \cup [at : {"drop", "create", "insert", "commit"}, lost : BOOLEAN]

\* A variant that loads every file into one table.
SharedTableName(file) == 1

\* table_name = Path(json_file_path).stem (line 216)
TableName(file) == file

\* A variant that tests only for the empty array.
EmptyArrayOnly(content) == content.kind = "list" /\ content.items = <<>>

\* "if not json_data or (isinstance(json_data, list) and len(json_data) == 0)"
\* (line 224)
IsEmptyInput(content) == ~content.truthy

\* After normalisation (lines 230-231) the data is the item list; collecting
\* the keys (lines 133-135) raises when the data is no list of objects.
SchemaRaises(content) ==
    \/ content.kind = "scalar"
    \/ \E i \in DOMAIN content.items : ~content.items[i].isdict

Outcome(success, msg) == [returned |-> TRUE, success |-> success, msg |-> msg]
Raised == [returned |-> FALSE, success |-> FALSE, msg |-> "raised"]

CallResult(outcome, stage, stmts, db, alive) ==
    [outcome |-> outcome, stage |-> stage, stmts |-> stmts, db |-> db, alive |-> alive]

\* A variant of the except blocks that commits what was done so far.
HandlerCommits(msg, stage, stmts, db, alive) ==
    CallResult(Outcome(FALSE, msg), stage, stmts \o <<"COMMIT">>, Commit(db), alive)

\* A variant of the except blocks that returns without rolling back.
HandlerWithoutRollback(msg, stage, stmts, db, alive) ==
    CallResult(Outcome(FALSE, msg), stage, stmts, db, alive)

\* The except blocks (lines 249-261): roll back, then return (False, msg).
\* rollback() itself raises on a lost connection, and nothing catches that.
Handler(msg, stage, stmts, db, alive) ==
    IF alive
    THEN CallResult(Outcome(FALSE, msg), stage, stmts \o <<"ROLLBACK">>, Rollback(db), alive)
    ELSE CallResult(Raised, stage, stmts \o <<"ROLLBACK">>, db, alive)

\* A storage call that raises: the statement has no effect.
StorageError(stage, stmts, db, lost) ==
    Handler("error", stage, stmts, IF lost THEN Lost(db) ELSE db, ~lost)

import_json_file(file, content, fault, db, alive) ==
    LET t == TableName(file)
        data == content.items
        columns_sql == ColumnsSql(data)
        columns == SortedColumns(data)
        dropped == ExecDrop(db, t)
        created == ExecCreate(dropped, t, columns_sql)
        inserted == ExecInsert(created, t, InsertValues(data, columns))
    \* "if not success" (lines 236-237) cannot happen: json_data is not empty
    \* when create_table_from_json is called.
    IN  IF content.kind = "malformed"
            THEN Handler("invalid_json", "parse", <<>>, db, alive)
        ELSE IF IsEmptyInput(content)
            THEN CallResult(Outcome(FALSE, "skipped_empty"), "skip", <<>>, db, alive)
        ELSE IF SchemaRaises(content)
            THEN Handler("error", "schema", <<>>, db, alive)
        ELSE IF fault.at = "drop" \/ ~alive
            THEN StorageError("drop", <<"DROP">>, db, fault.lost \/ ~alive)
        ELSE IF fault.at = "create" \/ CreateRejected(columns_sql)
            THEN StorageError("create", <<"DROP", "CREATE">>, dropped,
                              fault.at = "create" /\ fault.lost)
        ELSE IF fault.at = "insert"
            THEN StorageError("insert", <<"DROP", "CREATE", "INSERT">>, created, fault.lost)
        ELSE IF fault.at = "commit"
            THEN StorageError("commit", <<"DROP", "CREATE", "INSERT", "COMMIT">>,
                              inserted, fault.lost)
        ELSE CallResult(Outcome(TRUE, "ok"), "none",
                        <<"DROP", "CREATE", "INSERT", "COMMIT">>, Commit(inserted), alive)

(***************************************************************************)
(* import_directory: the loop over the listing and the summary.            *)
(***************************************************************************)
RecA == (KeyB :> IntPos(<<7>>)) @@ (KeyA :> Str(3))
RecB == (KeyA :> Null) @@ (KeyAB :> Bool(TRUE))
RecId == (KeyId :> IntPos(<<1>>))

\* What a file of the directory may hold.
Contents ==
    { Malformed,
      Array(<<>>),
      Object(EmptyRecord),
      Array(<<DictItem(RecA), DictItem(RecB)>>),
      Object(RecA),
      Array(<<DictItem(RecId)>>),
      Array(<<NonDictItem>>),
      Scalar(IntPos(<<>>)),
      Scalar(IntPos(<<5>>)) }

Stems == 1 .. MaxFiles

NoSummary == [returned |-> FALSE, total |-> 0, successful |-> 0, failed |-> 0,
              success_files |-> <<>>, failed_files |-> <<>>]

Summary(total, ok, bad) ==
    [returned |-> TRUE, total |-> total, successful |-> Len(ok), failed |-> Len(bad),
     success_files |-> ok, failed_files |-> bad]

ExportIdle ==
    /\ xpc = "idle" /\ table = <<>> /\ batch_size = 1 /\ total_entities = 0
    /\ num_files = 0 /\ file_num = 0 /\ files_created = <<>> /\ disk = <<>>
    /\ batches = <<>> /\ result = <<>> /\ queries = <<>>

SchemaIdle ==
    /\ spc = "idle" /\ json_data = <<>> /\ permuted = <<>>
    /\ schema = <<>> /\ schemaPermuted = <<>>

InferIdle ==
    /\ tpc = "idle" /\ column_values = <<>> /\ column_type = ""

AllianceIdle ==
    /\ apc = "idle" /\ tmp_Alliance = <<>> /\ alliance_data = <<>> /\ directory = <<>>
    /\ alliance_result = <<>>

GroupIdle ==
    /\ gpc = "idle" /\ input_records = <<>> /\ document = <<>>

GuiIdle ==
    /\ connection_verified = FALSE /\ directory_var = FALSE /\ conn_fields = 0
    /\ operation_btns = "none" /\ test_conn_btn = "none"
    /\ tests = <<>> /\ workers = <<>> /\ verified_with = 0

Init ==
    /\ pc = "loop"
    /\ json_files \in {[i \in 1 .. n |-> i] : n \in 0 .. MaxFiles}
    /\ idx = 0
    /\ durable \in {[s \in Stems |-> NoTable], [s \in Stems |-> OldTable]}
    /\ session = durable
    /\ connAlive = TRUE
    /\ successful_imports = <<>>
    /\ failed_imports = <<>>
    /\ calls = <<>>
    /\ summary = NoSummary
    /\ ExportIdle
    /\ SchemaIdle
    /\ InferIdle
    /\ AllianceIdle
    /\ GroupIdle
    /\ GuiIdle

\* One iteration of "for json_file in json_files" (lines 298-304): the call
\* of import_json_file and the append to one of the two lists.  An exception
\* that escapes import_json_file ends import_directory.
ImportJsonFile ==
    /\ pc = "loop"
    /\ idx < Len(json_files)
    /\ \E content \in Contents, fault \in Faults :
         LET file == json_files[idx + 1]
             r == import_json_file(file, content, fault, DB(durable, session), connAlive)
         IN  /\ durable' = r.db.durable
             /\ session' = r.db.session
             /\ connAlive' = r.alive
             /\ calls' = Append(calls, [file |-> file, content |-> content,
                                        outcome |-> r.outcome, stage |-> r.stage,
                                        stmts |-> r.stmts, before |-> durable])
             /\ IF r.outcome.returned
                THEN /\ idx' = idx + 1
                     /\ pc' = pc
                     /\ IF r.outcome.success
                        THEN /\ successful_imports' = Append(successful_imports, file)
                             /\ failed_imports' = failed_imports
                        ELSE /\ failed_imports' = Append(failed_imports, file)
                             /\ successful_imports' = successful_imports
                ELSE /\ pc' = "raised"
                     /\ UNCHANGED <<idx, successful_imports, failed_imports>>
    /\ UNCHANGED <<json_files, summary, exportVars, schemaVars, inferVars, allianceVars, groupVars, guiVars>>

\* "if not json_files" (lines 282-290)
ImportDirectoryEmpty ==
    /\ pc = "loop"
    /\ json_files = <<>>
    /\ summary' = Summary(0, <<>>, <<>>)
    /\ pc' = "done"
    /\ UNCHANGED <<json_files, idx, durable, session, connAlive,
                   successful_imports, failed_imports, calls, exportVars, schemaVars, inferVars, allianceVars, groupVars, guiVars>>

\* The return after the loop (lines 321-327)
ImportDirectoryReturn ==
    /\ pc = "loop"
    /\ json_files # <<>>
    /\ idx = Len(json_files)
    /\ summary' = Summary(Len(json_files), successful_imports, failed_imports)
    /\ pc' = "done"
    /\ UNCHANGED <<json_files, idx, durable, session, connAlive,
                   successful_imports, failed_imports, calls, exportVars, schemaVars, inferVars, allianceVars, groupVars, guiVars>>

Next == ImportJsonFile \/ ImportDirectoryEmpty \/ ImportDirectoryReturn

Spec == Init /\ [][Next]_vars

(***************************************************************************)
(* Claims about import_json_file and import_directory (Spec).              *)
(***************************************************************************)
LastCall == calls[Len(calls)]

\* The table a successful import of content leaves behind.
ImportedTable(content) ==
    [columns |-> ColumnsSql(content.items),
     rows |-> InsertValues(content.items, SortedColumns(content.items)),
     exists |-> TRUE]

\* C1 (as claimed): whenever the last import_json_file call raised after the
\* input was normalised (while building the schema, at DROP, at CREATE or at
\* the batched INSERT), nothing was committed and the committed database is
\* what it was before the call.
C1_FailedImportLeavesDatabaseUnchanged ==
    (calls # <<>> /\ LastCall.stage \in {"schema", "drop", "create", "insert"})
        => durable = LastCall.before

\* C2: when file f2 fails during row insertion, the table of every file f1
\* imported successfully before it still exists with all of f1's rows.
C2_EarlierImportsSurviveLaterFailure ==
    \A i, j \in DOMAIN calls :
        (i < j /\ j = Len(calls) /\ calls[i].outcome.success /\ calls[j].stage = "insert")
            => durable[TableName(calls[i].file)] = ImportedTable(calls[i].content)

\* C2 witness: a first file committed, a later file failed at INSERT and was
\* rolled back.
C2_Witness ==
    \E i, j \in DOMAIN calls :
        /\ i < j /\ j = Len(calls)
        /\ calls[i].outcome.success
        /\ calls[j].stage = "insert"
        /\ calls[j].outcome.returned
        /\ "ROLLBACK" \in Range(calls[j].stmts)
        /\ durable[TableName(calls[i].file)].rows # <<>>

\* C12: a successful import inserted one batch whose rows are, in record
\* order, one tuple per record with one value per data column of the schema
\* in schema order: the record's value for the column, or null when the
\* record lacks the column.
C12_OneTuplePerRecordInSchemaOrder ==
    (calls # <<>> /\ LastCall.stage = "none") =>
        LET t == durable[TableName(LastCall.file)]
            items == LastCall.content.items
            name(c) == t.columns[c + 1].name
        IN  /\ Cardinality({k \in DOMAIN LastCall.stmts : LastCall.stmts[k] = "INSERT"}) = 1
            /\ Len(t.rows) = Len(items)
            /\ \A i \in DOMAIN items :
                  /\ Len(t.rows[i]) = Len(t.columns) - 1
                  /\ \A c \in 1 .. Len(t.columns) - 1 :
                        t.rows[i][c] = IF name(c) \in DOMAIN items[i].fields
                                       THEN items[i].fields[name(c)]
                                       ELSE Null

\* C12 witness: two records were inserted into a table of three data
\* columns, each record lacking one of them.
C12_Witness ==
    /\ calls # <<>>
    /\ LastCall.stage = "none"
    /\ Len(LastCall.content.items) = 2
    /\ LET t == durable[TableName(LastCall.file)]
       IN /\ Len(t.columns) = 4
          /\ Len(t.rows) = 2
          /\ \A i \in 1 .. 2 : \E c \in 1 .. 3 :
                /\ t.rows[i][c] = Null
                /\ t.columns[c + 1].name \notin DOMAIN LastCall.content.items[i].fields

\* The statements of the last run: DROP, CREATE, INSERT, COMMIT in this
\* order and once each when the run succeeded; COMMIT only straight after an
\* INSERT that did not raise.
OrderedStatements ==
    LET st == LastCall.stmts
    IN  /\ LastCall.outcome.success => st = <<"DROP", "CREATE", "INSERT", "COMMIT">>
        /\ \A k \in DOMAIN st :
              st[k] = "COMMIT" => (k > 1 /\ st[k - 1] = "INSERT" /\ LastCall.stage # "insert")

IsEmptyContent(content) == content \in {Array(<<>>), Object(EmptyRecord)}

\* C3 (as claimed): in the summary import_directory returns, a file with empty
\* input is in neither list; a directory of one valid, one empty-array and
\* one malformed file gives total 3, successful 1, failed 1.
C3_EmptyFileInNeitherList ==
    summary.returned =>
        /\ \A i \in DOMAIN calls :
              IsEmptyContent(calls[i].content) =>
                  /\ calls[i].file \notin Range(summary.success_files)
                  /\ calls[i].file \notin Range(summary.failed_files)
        /\ ( /\ Len(calls) = 3
             /\ \E i \in DOMAIN calls : calls[i].outcome.success
             /\ \E i \in DOMAIN calls : calls[i].content = Array(<<>>)
             /\ \E i \in DOMAIN calls : calls[i].content = Malformed )
           => (summary.total = 3 /\ summary.successful = 1 /\ summary.failed = 1)

\* C4 (as claimed): when import_directory is over, every file of the listing
\* was attempted exactly once, in listing order, and the summary was returned
\* with total equal to the number of files listed.
C4_EveryFileAttemptedOnce ==
    pc # "loop" =>
        /\ [i \in DOMAIN calls |-> calls[i].file] = json_files
        /\ summary.returned
        /\ summary.total = Len(json_files)

Row(e, a, t, s, c) ==
    [EntityID |-> e, ApplicationID |-> a, EntityType |-> 1, TargetID |-> t,
     SourceIDValue |-> s, CommunityID |-> c]

\* What the table may hold for one entity.
EntityRows(e) ==
    { {},
      {Row(e, 1, 10 * e + 1, Str(4), 1)},
      {Row(e, 1, 10 * e + 1, Null, 1), Row(e, 2, 10 * e + 2, Str(0), 1)},
      {Row(e, 2, 10 * e + 1, Str(4), 2)},
      {Row(e, 1, 10 * e + 1, Str(4), 1), Row(e, 1, 10 * e + 2, Null, 1)} }

EntityIds == 1 .. MaxEntity
Tables ==
    { UNION {f[e] : e \in EntityIds} :
        f \in { g \in [EntityIds -> UNION {EntityRows(e) : e \in EntityIds}] :
                  \A e \in EntityIds : g[e] \in EntityRows(e) } }
\* batch_size is any int the caller passes: nothing checks it.
BatchSizes == -1 .. MaxBatch

\* The ascending sequence of a set of integers.
RECURSIVE Ascending(_)
Ascending(S) ==
    IF S = {} THEN <<>>
    ELSE LET m == CHOOSE x \in S : \A y \in S : x <= y
         IN <<m>> \o Ascending(S \ {m})

\* SELECT COUNT(DISTINCT EntityID) (lines 392-395)
get_entity_count(rows) == Cardinality({r.EntityID : r \in rows})

\* SELECT DISTINCT EntityID ... ORDER BY EntityID LIMIT %s OFFSET %s (lines 412-420)
get_entity_id_range(rows, offset, limit) ==
    LET ids == Ascending({r.EntityID : r \in rows})
        last == IF offset + limit < Len(ids) THEN offset + limit ELSE Len(ids)
    IN SubSeq(ids, offset + 1, last)

\* ORDER BY EntityID, ApplicationID: a before b, or a tie.
OrderedBefore(a, b) ==
    \/ a.EntityID < b.EntityID
    \/ a.EntityID = b.EntityID /\ a.ApplicationID <= b.ApplicationID

\* Every order in which the server may return rows under that ORDER BY
\* (the order of rows that tie is not specified).
RECURSIVE Orderings(_)
Orderings(rows) ==
    IF rows = {} THEN {<<>>}
    ELSE UNION { {<<m>> \o rest : rest \in Orderings(rows \ {m})} :
                 m \in {x \in rows : \A y \in rows : OrderedBefore(x, y)} }

\* SELECT ... WHERE EntityID IN (...) ORDER BY EntityID, ApplicationID
\* (lines 432-445): the possible results.
get_records_for_entities(rows, entity_ids) ==
    IF entity_ids = <<>> THEN {<<>>}
    ELSE Orderings({r \in rows : r.EntityID \in Range(entity_ids)})

(***************************************************************************)
(* build_json_structure                                                    *)
(***************************************************************************)
EmptyDocument == [CommunityId |-> 0, Entities |-> <<>>, empty |-> TRUE]

BaseItem(record) ==
    [system |-> record.ApplicationID, type |-> record.EntityType,
     applicationId |-> record.TargetID]

\* An earlier generation of the mapping: the field is always there.
EntityItemAlways(record) ==
    [c \in {"correlationId"} |-> record.SourceIDValue] @@ BaseItem(record)

\* entity_item (lines 495-504)
EntityItem(record) ==
    IF Truthy(record.SourceIDValue)
    THEN [c \in {"correlationId"} |-> record.SourceIDValue] @@ BaseItem(record)
    ELSE BaseItem(record)

\* entities_by_id[entity_id] (lines 479-484): the records of one entity, in
\* the order of the input.
EntityRecords(records, entity_id) ==
    SelectSeq(records, LAMBDA r : r.EntityID = entity_id)

\* The EntityIDs in the order in which the records first mention them.
RECURSIVE FirstSeenIds(_, _)
FirstSeenIds(records, seen) ==
    IF records = <<>> THEN <<>>
    ELSE IF Head(records).EntityID \in seen THEN FirstSeenIds(Tail(records), seen)
    ELSE <<Head(records).EntityID>>
            \o FirstSeenIds(Tail(records), seen \cup {Head(records).EntityID})

\* A variant of entities_array that walks the dictionary in insertion order,
\* without sorted().
EntitiesArrayFirstSeen(records) ==
    LET ids == FirstSeenIds(records, {})
    IN [g \in DOMAIN ids |->
          LET entity_records == EntityRecords(records, ids[g])
          IN [Entity |-> [k \in DOMAIN entity_records |-> EntityItem(entity_records[k])]]]

\* entities_array (lines 487-509)
EntitiesArray(records) ==
    LET ids == Ascending({records[i].EntityID : i \in DOMAIN records})
    IN [g \in DOMAIN ids |->
          LET entity_records == EntityRecords(records, ids[g])
          IN [Entity |-> [k \in DOMAIN entity_records |-> EntityItem(entity_records[k])]]]

build_json_structure(records) ==
    IF records = <<>> THEN EmptyDocument
    ELSE [CommunityId |-> records[1].CommunityID,
          Entities |-> EntitiesArray(records),
          empty |-> FALSE]

(***************************************************************************)
(* export_to_json_files.  Any query and any file write may raise; the      *)
(* except block (lines 610-618) turns the exception into a failure result. *)
(***************************************************************************)
NoResult == [returned |-> FALSE, success |-> FALSE, total_entities |-> 0,
             files_created |-> 0, error |-> "none"]

Result(success, total, count, error) ==
    [returned |-> TRUE, success |-> success, total_entities |-> total,
     files_created |-> count, error |-> error]

\* A file whose write did not finish.
PartialFile == [CommunityId |-> 0, Entities |-> <<>>, empty |-> FALSE]

\* A variant that rounds down.
FloorNumFiles(total, size) == total \div size

\* Python's a // b for b # 0: the floor of the quotient.
FloorDiv(a, b) == IF b > 0 THEN a \div b ELSE (-a) \div (-b)

\* num_files (line 558)
NumFiles(total, size) == FloorDiv(total + size - 1, size)

\* offset (line 568)
Offset(n, size) == (n - 1) * size

\* str(n) of an n >= 0: its decimal digits, most significant first.
RECURSIVE Decimal(_)
Decimal(n) == IF n < 10 THEN <<n>> ELSE Decimal(n \div 10) \o <<n % 10>>

\* A variant of the file name that numbers the files from 0.
FileNameFromZero(n) == Decimal(n - 1)

\* filename (line 582): the prefix, str(file_num) and ".json".  The prefix
\* and the extension are the same for every file of an export; a name is
\* modelled by the digits between them.
FileName(n) == Decimal(n)

\* A variant that removes the files written so far.
RemoveWrittenFiles(files) == <<>>

\* What the except block (lines 610-618) leaves of the output directory:
\* it deletes nothing.
FilesAfterError(files) == files

ImportIdle ==
    /\ pc = "idle" /\ json_files = <<>> /\ idx = 0 /\ durable = <<>> /\ session = <<>>
    /\ connAlive = TRUE /\ successful_imports = <<>> /\ failed_imports = <<>>
    /\ calls = <<>> /\ summary = NoSummary

InitExport ==
    /\ xpc = "start"
    /\ table \in Tables
    /\ batch_size \in BatchSizes
    /\ total_entities = 0
    /\ num_files = 0
    /\ file_num = 0
    /\ files_created = <<>>
    /\ disk = <<>>
    /\ batches = <<>>
    /\ result = NoResult
    /\ queries = <<>>
    /\ ImportIdle
    /\ SchemaIdle
    /\ InferIdle
    /\ AllianceIdle
    /\ GroupIdle
    /\ GuiIdle

\* Lines 539-561: count the entities, return when there are none, compute
\* the number of files.  The division raises ZeroDivisionError when
\* batch_size is 0.
ExportStart ==
    /\ xpc = "start"
    /\ queries' = Append(queries, "count")
    /\ \E raises \in BOOLEAN :
         IF raises
         THEN /\ result' = Result(FALSE, 0, 0, "count")
              /\ xpc' = "done"
              /\ UNCHANGED <<total_entities, num_files, file_num>>
         ELSE LET total == get_entity_count(table)
              IN  /\ total_entities' = total
                  /\ IF total = 0
                     THEN /\ result' = Result(FALSE, 0, 0, "no_data")
                          /\ xpc' = "done"
                          /\ UNCHANGED <<num_files, file_num>>
                     ELSE IF batch_size = 0
                     THEN /\ result' = Result(FALSE, 0, 0, "zero_division")
                          /\ xpc' = "done"
                          /\ UNCHANGED <<num_files, file_num>>
                     ELSE /\ num_files' = NumFiles(total, batch_size)
                          /\ file_num' = 1
                          /\ xpc' = "batch"
                          /\ result' = result
    /\ UNCHANGED <<table, batch_size, files_created, disk, batches, importVars, schemaVars, inferVars, allianceVars, groupVars, guiVars>>

\* What may raise in one iteration: any query and the file write; the
\* server rejects a negative LIMIT (error 1064).
BatchRaises(size) ==
    IF size < 0 THEN {"ids"} ELSE {"none", "ids", "records", "open", "write"}

\* One iteration of the batch loop (lines 564-589).
ExportBatch ==
    /\ xpc = "batch"
    /\ file_num <= num_files
    /\ \E raises \in BatchRaises(batch_size) :
         LET entity_ids == get_entity_id_range(table, Offset(file_num, batch_size), batch_size)
         IN  \E records \in get_records_for_entities(table, entity_ids) :
               /\ queries' = queries \o (IF raises = "ids" \/ entity_ids = <<>>
                                         THEN <<"ids">> ELSE <<"ids", "records">>)
               /\ IF raises = "none"
                  THEN /\ disk' = (FileName(file_num) :> build_json_structure(records)) @@ disk
                       /\ files_created' = Append(files_created, FileName(file_num))
                       /\ batches' = Append(batches, [entity_ids |-> entity_ids,
                                                      records |-> records])
                       /\ file_num' = file_num + 1
                       /\ UNCHANGED <<xpc, result>>
                  ELSE /\ disk' = FilesAfterError(IF raises = "write"
                                                  THEN (FileName(file_num) :> PartialFile) @@ disk
                                                  ELSE disk)
                       /\ result' = Result(FALSE, 0, 0, raises)
                       /\ xpc' = "done"
                       /\ UNCHANGED <<files_created, batches, file_num>>
    /\ UNCHANGED <<table, batch_size, total_entities, num_files, importVars, schemaVars, inferVars, allianceVars, groupVars, guiVars>>

\* The return after the loop (lines 603-608)
ExportReturn ==
    /\ xpc = "batch"
    /\ file_num > num_files
    /\ result' = Result(TRUE, total_entities, Len(files_created), "none")
    /\ xpc' = "done"
    /\ UNCHANGED <<table, batch_size, total_entities, num_files, file_num,
                   files_created, disk, batches, queries, importVars, schemaVars, inferVars, allianceVars, groupVars, guiVars>>

NextExport == ExportStart \/ ExportBatch \/ ExportReturn

SpecExport == InitExport /\ [][NextExport]_vars

(***************************************************************************)
(* Claims about export_to_json_files and build_json_structure (SpecExport) *)
(***************************************************************************)
\* The full sorted key sequence of the table.
Keys == Ascending({r.EntityID : r \in table})

\* ceil(k / b) for b >= 1, by its definition: the least m with m * b >= k.
Ceil(k, b) == CHOOSE m \in 0 .. k : m * b >= k /\ \A j \in 0 .. k : j * b >= k => m <= j

Min(a, b) == IF a < b THEN a ELSE b

RECURSIVE Concat(_)
Concat(seqs) == IF seqs = <<>> THEN <<>> ELSE Head(seqs) \o Concat(Tail(seqs))

\* C7: a successful export of K keys with batch size B >= 1 wrote exactly
\* the files 1 .. ceil(K/B); batch n covers the keys at offsets (n-1)*B ..
\* n*B-1 of the ascending key order and holds the rows of exactly those keys;
\* the windows, concatenated in order, are the sorted key sequence.
C7_BatchPartition ==
    (xpc = "done" /\ result.success /\ batch_size >= 1) =>
        LET K == Len(Keys)
            B == batch_size
        IN  /\ DOMAIN disk = {FileName(n) : n \in 1 .. Ceil(K, B)}
            /\ result.files_created = Ceil(K, B)
            /\ Len(batches) = Ceil(K, B)
            /\ \A n \in DOMAIN batches :
                  /\ batches[n].entity_ids = SubSeq(Keys, (n - 1) * B + 1, Min(n * B, K))
                  /\ Range(batches[n].records)
                        = {r \in table : r.EntityID \in Range(batches[n].entity_ids)}
                  /\ Len(disk[FileName(n)].Entities) = Len(batches[n].entity_ids)
            /\ Concat([n \in DOMAIN batches |-> batches[n].entity_ids]) = Keys

\* C7 witness: three keys exported with batch size two, the last window short.
C7_Witness ==
    /\ xpc = "done" /\ result.success
    /\ Len(Keys) = 3 /\ batch_size = 2
    /\ DOMAIN disk = {FileName(1), FileName(2)}
    /\ Len(batches[2].entity_ids) = 1

\* C8: when a storage read fails in batch n, the export is over with a
\* failure result, no batch from n on was written, and the files of batches
\* 1 .. n-1 are on disk as they were written.
C8_ReadFailureKeepsEarlierFiles ==
    (xpc = "done" /\ result.error \in {"ids", "records"}) =>
        /\ result.returned /\ ~result.success
        /\ Len(batches) = file_num - 1
        /\ DOMAIN disk = {FileName(n) : n \in 1 .. (file_num - 1)}
        /\ \A n \in 1 .. (file_num - 1) :
              disk[FileName(n)] = build_json_structure(batches[n].records)

\* C8 witness: the read of the second batch failed after the first file was
\* written.
C8_Witness ==
    /\ xpc = "done"
    /\ result.error = "records"
    /\ file_num = 2
    /\ FileName(1) \in DOMAIN disk
    /\ disk[FileName(1)].Entities # <<>>

\* The items of a document, group after group.
Items(doc) == Concat([g \in DOMAIN doc.Entities |-> doc.Entities[g].Entity])

HasValue(v) == v # Null /\ v # Str(0)

\* C9: in every document written, each fetched row is exactly one item; the
\* item has system, type and applicationId, and it has correlationId exactly
\* when the row's SourceIDValue is neither null nor empty.
C9_CorrelationIdOnlyWithValue ==
    \A n \in DOMAIN batches :
        LET items == Items(disk[FileName(n)])
            records == batches[n].records
        IN  /\ Len(items) = Len(records)
            /\ \A k \in DOMAIN items :
                  /\ {"system", "type", "applicationId"} \subseteq DOMAIN items[k]
                  /\ items[k].system = records[k].ApplicationID
                  /\ items[k].type = records[k].EntityType
                  /\ items[k].applicationId = records[k].TargetID
                  /\ "correlationId" \in DOMAIN items[k] <=> HasValue(records[k].SourceIDValue)
                  /\ "correlationId" \in DOMAIN items[k]
                        => items[k].correlationId = records[k].SourceIDValue

\* C9 witness: one document holds an item with correlationId, an item of a
\* row with NULL and an item of a row with the empty string.
C9_Witness ==
    \E n \in DOMAIN batches :
        LET items == Items(disk[FileName(n)])
            records == batches[n].records
        IN  /\ \E k \in DOMAIN items : "correlationId" \in DOMAIN items[k]
            /\ \E k \in DOMAIN items :
                  records[k].SourceIDValue = Null /\ DOMAIN items[k] = {"system", "type", "applicationId"}
            /\ \E k \in DOMAIN items :
                  records[k].SourceIDValue = Str(0) /\ "correlationId" \notin DOMAIN items[k]

\* The number an unpadded decimal name stands for; -1 for a name that is
\* empty, has a leading zero or holds something other than digits.
RECURSIVE DecimalValue(_)
DecimalValue(name) ==
    IF Len(name) = 1 THEN name[1]
    ELSE DecimalValue(SubSeq(name, 1, Len(name) - 1)) * 10 + name[Len(name)]

NumberOf(name) ==
    IF /\ name # <<>>
       /\ \A i \in DOMAIN name : name[i] \in 0 .. 9
       /\ (Len(name) > 1 => name[1] # 0)
    THEN DecimalValue(name) ELSE -1

\* The files written so far are the files 1 .. k of the export.
FilesOneToK ==
    \E k \in 0 .. (IF num_files > 0 THEN num_files ELSE 0) :
        /\ {NumberOf(name) : name \in DOMAIN disk} = 1 .. k
        /\ Cardinality(DOMAIN disk) = k

\* A step writes at most one file, a new one with the next number, and
\* leaves the files written before as they are.
WritesNextFileOnly ==
    \/ disk' = disk
    \/ \E name \in DOMAIN disk' \ DOMAIN disk :
          /\ DOMAIN disk' = DOMAIN disk \cup {name}
          /\ NumberOf(name) = Cardinality(DOMAIN disk) + 1
          /\ \A old \in DOMAIN disk : disk'[old] = disk[old]

\* C20: at every point of an export the files written so far are named by
\* the unpadded numbers 1 .. k, for a k between 0 and the number of batches,
\* and every step that writes writes the one file k + 1 and rewrites none.
C20_FilesNumberedFromOneWithoutGap ==
    []FilesOneToK /\ [][WritesNextFileOnly]_vars

\* C20 witness: three batches were written, as the files 1, 2 and 3.
C20_Witness ==
    /\ xpc = "done" /\ result.success
    /\ num_files = 3
    /\ DOMAIN disk = {<<1>>, <<2>>, <<3>>}
    /\ files_created = << <<1>>, <<2>>, <<3>> >>

\* C21 (as claimed): all documents written by one export carry the same
\* CommunityId, and it is the CommunityID of every row placed in the document.
C21_OneCommunityIdPerExport ==
    \A n \in DOMAIN batches :
        LET doc == disk[FileName(n)]
        IN  /\ \A m \in DOMAIN batches : disk[FileName(m)].CommunityId = doc.CommunityId
            /\ \A k \in DOMAIN batches[n].records :
                  batches[n].records[k].CommunityID = doc.CommunityId

\* C22 (as claimed): an export called with a batch size of zero or less
\* sends no query to the server, writes no file and does not report success.
C22_InvalidBatchSizeRejectedFirst ==
    batch_size <= 0 =>
        /\ queries = <<>>
        /\ disk = <<>>
        /\ ~result.success

(***************************************************************************)
(* The schema computation of create_table_from_json (lines 131-151),       *)
(* applied to a record list and to a permutation of it.                    *)
(***************************************************************************)
\* 2^31 as an integer value
IntTwo31 == IntPos(Two31)

\* Records the generated lists are made of.
RecordPool ==
    { RecA,
      RecB,
      (KeyUpperB :> Float(1)) @@ (KeyA :> Str(256)),
      (KeyB :> IntTwo31),
      (KeyA :> Dict(1)) @@ (KeyB :> Bool(FALSE)),
      (KeyAB :> IntPos(<<5>>)),
      EmptyRecord,
      (KeyUpperB :> Null) @@ (KeyAB :> Str(255)),
      RecId }

RecordLists ==
    UNION { [1 .. n -> {DictItem(r) : r \in RecordPool}] : n \in 1 .. MaxRecs }

Reorderings(s) ==
    { [i \in DOMAIN s |-> s[p[i]]] :
        p \in {q \in [DOMAIN s -> DOMAIN s] : \A i, j \in DOMAIN s : q[i] = q[j] => i = j} }

InitSchema ==
    /\ spc = "input"
    /\ json_data \in RecordLists
    /\ permuted \in Reorderings(json_data)
    /\ schema = <<>>
    /\ schemaPermuted = <<>>
    /\ ImportIdle
    /\ ExportIdle
    /\ InferIdle
    /\ AllianceIdle
    /\ GroupIdle
    /\ GuiIdle

BuildSchema ==
    /\ spc = "input"
    /\ schema' = ColumnsSql(json_data)
    /\ schemaPermuted' = ColumnsSql(permuted)
    /\ spc' = "built"
    /\ UNCHANGED <<json_data, permuted, importVars, exportVars, inferVars, allianceVars, groupVars, guiVars>>

NextSchema == BuildSchema

SpecSchema == InitSchema /\ [][NextSchema]_vars

\* C10: the columns create_table_from_json computes for a record list are
\* the id column followed by the union of the records' keys in strictly
\* ascending string order, and any permutation of the records gives the
\* same ordered columns with the same types.
C10_SchemaIndependentOfRecordOrder ==
    spc = "built" =>
        /\ schema = schemaPermuted
        /\ {schema[i].name : i \in 2 .. Len(schema)}
              = UNION {DOMAIN json_data[i].fields : i \in DOMAIN json_data}
        /\ \A i, j \in 2 .. Len(schema) : i < j => StrLess(schema[i].name, schema[j].name)
        /\ \A i \in 2 .. Len(schema) :
              schema[i].type = determine_column_type(
                  [r \in DOMAIN permuted |-> Get(permuted[r].fields, schema[i].name)])

\* C10 witness: two records that mention their keys in an order that is not
\* the sorted one, built in both orders, the types depending on both records.
C10_Witness ==
    /\ spc = "built"
    /\ permuted # json_data
    /\ Len(schema) = 4
    /\ UnsortedColumns(json_data) # UnsortedColumns(permuted)
    /\ UnsortedColumns(json_data) # SortedColumns(json_data)
    /\ \E i \in 2 .. Len(schema) : schema[i].type = "JSON"

\* C11: the schema create_table_from_json computes starts with the id
\* column and names no column twice.
C11_SchemaColumnNamesUnique ==
    spc = "built" =>
        /\ schema[1] = IdColumn
        /\ \A i, j \in DOMAIN schema : i # j => schema[i].name # schema[j].name

(***************************************************************************)
(* _determine_column_type as a function of its argument (SpecInfer).       *)
(***************************************************************************)
\* 9223372036854775808 = 2^63 = 32768 * 65536^3
Two63 == <<32768, 0, 0, 0>>

\* The values a column is made of: null, both booleans, integers at and
\* around the bounds of INT and BIGINT, a float, strings at and around 255
\* characters, a dict and an empty list.
ValuePool ==
    { Null, Bool(TRUE), Bool(FALSE),
      IntPos(<<>>), IntPos(<<5>>), IntNeg(<<5>>),
      IntPos(<<32767, 65535>>), IntPos(Two31), IntNeg(Two31), IntNeg(<<32768, 1>>),
      IntPos(<<32767, 65535, 65535, 65535>>), IntPos(Two63),
      IntNeg(Two63), IntNeg(<<32768, 0, 0, 1>>),
      Float(1), Str(0), Str(255), Str(256), Dict(1), List(0) }

ValueLists == UNION { [1 .. n -> ValuePool] : n \in 0 .. MaxValues }

InitInfer ==
    /\ tpc = "input"
    /\ column_values \in ValueLists
    /\ column_type = ""
    /\ ImportIdle
    /\ ExportIdle
    /\ SchemaIdle
    /\ AllianceIdle
    /\ GroupIdle
    /\ GuiIdle

DetermineColumnType ==
    /\ tpc = "input"
    /\ column_type' = determine_column_type(column_values)
    /\ tpc' = "typed"
    /\ UNCHANGED <<column_values, importVars, exportVars, schemaVars, allianceVars, groupVars, guiVars>>

NextInfer == DetermineColumnType

SpecInfer == InitInfer /\ [][NextInfer]_vars

\* The values of the column by kind.
NonNull == {v \in Range(column_values) : v # Null}
Integers == {v \in NonNull : v.tag = "int"}

\* -2^31 <= v <= 2^31 - 1
FitsInt(v) ==
    IF v.p[1] = 1 THEN MagGE(Two31, Mag(v)) ELSE ~MagGE(Mag(v), Two31)

\* -2^63 <= v <= 2^63 - 1
FitsBigInt(v) ==
    IF v.p[1] = 1 THEN MagGE(Two63, Mag(v)) ELSE ~MagGE(Mag(v), Two63)

\* C13 (as claimed): for a column of integers and nulls with at least one
\* integer, the returned type can hold every integer of the column: INT
\* holds -2^31 .. 2^31 - 1 and BIGINT holds -2^63 .. 2^63 - 1.
C13_TypeHoldsEveryInteger ==
    (tpc = "typed" /\ Integers # {} /\ NonNull = Integers) =>
        /\ column_type \in {"INT", "BIGINT"}
        /\ column_type = "INT" => \A v \in Integers : FitsInt(v)
        /\ column_type = "BIGINT" => \A v \in Integers : FitsBigInt(v)

\* C14: for a column with at least one non-boolean integer and otherwise only
\* integers, booleans and nulls, the type is BIGINT when the largest absolute
\* value of the non-boolean integers is at least 2147483648, and INT
\* otherwise.
C14_BigIntFromTwo31 ==
    (tpc = "typed" /\ Integers # {} /\ \A v \in NonNull : v.tag \in {"int", "bool"}) =>
        column_type = IF \E v \in Integers : MagGE(Mag(v), Two31) THEN "BIGINT" ELSE "INT"

\* C14 witness: a column of a boolean and integers, the largest absolute
\* value being exactly 2147483648, was typed BIGINT.
C14_Witness ==
    /\ tpc = "typed"
    /\ \E v \in NonNull : v.tag = "bool"
    /\ Integers # {}
    /\ \A v \in NonNull : v.tag \in {"int", "bool"}
    /\ \E v \in Integers : Mag(v) = Two31
    /\ \A v \in Integers : MagGE(Two31, Mag(v))
    /\ column_type = "BIGINT"

C16_NestedGivesJson ==
    (tpc = "typed" /\ \E v \in NonNull : v.tag \in {"dict", "list"}) =>
        column_type = "JSON"

\* C16 witness: a column of an array, a string of more than 255 characters
\* and a float was typed JSON.
C16_Witness ==
    /\ tpc = "typed"
    /\ \E v \in NonNull : v.tag = "list"
    /\ \A v \in NonNull : v.tag # "dict"
    /\ Str(256) \in NonNull
    /\ \E v \in NonNull : v.tag = "float"
    /\ column_type = "JSON"

\* C17: a column of booleans and nulls only, with at least one boolean, is
\* typed BOOLEAN.
C17_BooleansGiveBoolean ==
    (tpc = "typed" /\ NonNull # {} /\ \A v \in NonNull : v.tag = "bool") =>
        column_type = "BOOLEAN"

\* C17 witness: a column of both booleans and a null was typed BOOLEAN.
C17_Witness ==
    /\ tpc = "typed"
    /\ Range(column_values) = {Null, Bool(TRUE), Bool(FALSE)}
    /\ column_type = "BOOLEAN"

\* C18: a column without nested value and without string that holds at least
\* one float is typed DOUBLE, whatever integers, booleans or nulls it also
\* holds.
C18_FloatGivesDouble ==
    (/\ tpc = "typed"
     /\ \E v \in NonNull : v.tag = "float"
     /\ \A v \in NonNull : v.tag \notin {"dict", "list", "str"}) =>
        column_type = "DOUBLE"

\* C18 witness: a column of a float, the integer 2^63 and a boolean was typed
\* DOUBLE.
C18_Witness ==
    /\ tpc = "typed"
    /\ Range(column_values) = {Float(1), IntPos(Two63), Bool(TRUE)}
    /\ column_type = "DOUBLE"

\* C19: a column without any non-null value, the empty column included, is
\* typed TEXT.
C19_AllNullGivesText ==
    (tpc = "typed" /\ \A i \in DOMAIN column_values : column_values[i] = Null) =>
        column_type = "TEXT"

\* C19 witness: a column of nulls only was typed TEXT.
C19_Witness ==
    /\ tpc = "typed"
    /\ Len(column_values) > 1
    /\ Range(column_values) = {Null}
    /\ column_type = "TEXT"

(***************************************************************************)
(* TmpAllianceExporter (SpecAlliance).  A row of tmp_Alliance is a         *)
(* function from the 16 columns to values.  Beside the JSON values above,  *)
(* a cell may hold a datetime <<Y, M, D, h, m, s>> or a date <<Y, M, D>>,  *)
(* and a formatted cell holds a string known by its characters (code       *)
(* points).                                                                *)
(***************************************************************************)
COLUMNS ==
    <<"SourceIDValue", "TargetID", "EntityType", "ApplicationID", "ClientID",
      "TimeStampCreate", "PushNumber", "SourceDBName", "SourceTableName",
      "SourceColumnName", "NameFirst", "NameLast", "NameMid", "NameSuffix",
      "BirthDate", "ReferralNumber">>

DateTime(fields) == [tag |-> "datetime", p |-> fields]
Date(fields) == [tag |-> "date", p |-> fields]
Chars(cs) == [tag |-> "chars", p |-> cs]

\* %m, %d, %H, %M, %S: two digits, zero-padded
Pad2(n) == <<48 + (n \div 10), 48 + (n % 10)>>
\* %Y of a year 1000 .. 9999
Pad4(n) ==
    <<48 + (n \div 1000), 48 + ((n \div 100) % 10), 48 + ((n \div 10) % 10), 48 + (n % 10)>>

\* strftime('%Y-%m-%d')
FormatDate(f) == Pad4(f[1]) \o <<45>> \o Pad2(f[2]) \o <<45>> \o Pad2(f[3])

\* strftime('%Y-%m-%d %H:%M:%S')
FormatDateTime(f) ==
    FormatDate(f) \o <<32>> \o Pad2(f[4]) \o <<58>> \o Pad2(f[5]) \o <<58>> \o Pad2(f[6])

\* _format_datetime_for_export (lines 757-771); str(v) of a string is v.
format_datetime_for_export(dt_value) ==
    CASE dt_value = Null -> Chars(<<>>)
      [] dt_value.tag = "datetime" -> Chars(FormatDateTime(dt_value.p))
      [] dt_value.tag = "date" -> Chars(FormatDate(dt_value.p))
      [] dt_value.tag \in {"str", "chars"} -> dt_value

DateColumns == {"TimeStampCreate", "BirthDate"}

\* json_row (lines 827-835)
JsonRow(row) ==
    [key \in DOMAIN row |->
        IF key \in DateColumns THEN format_datetime_for_export(row[key])
        ELSE IF row[key] = Null THEN Null
        ELSE row[key]]

\* formatted_row (lines 791-799)
CsvRow(row) ==
    [key \in DOMAIN row |->
        IF key \in DateColumns THEN format_datetime_for_export(row[key])
        ELSE IF row[key] = Null THEN Chars(<<>>)
        ELSE row[key]]

\* Rows the table may hold.
AllianceRow(created, born, mid) ==
    [c \in Range(COLUMNS) |->
        CASE c = "TimeStampCreate" -> created
          [] c = "BirthDate" -> born
          [] c = "NameMid" -> mid
          [] c \in {"PushNumber", "ApplicationID", "ClientID"} -> IntPos(<<5>>)
          [] OTHER -> Str(3)]

AllianceRowPool ==
    { AllianceRow(DateTime(<<2024, 1, 5, 9, 30, 0>>), Date(<<1987, 12, 31>>), Str(1)),
      AllianceRow(Null, Null, Null),
      AllianceRow(DateTime(<<1999, 10, 20, 23, 59, 58>>), Null, Null) }

AllianceTables == UNION { [1 .. n -> AllianceRowPool] : n \in 0 .. MaxRows }

\* csv_filepath, json_filepath, temp_csv, temp_json (lines 889-896)
CsvFile == "p_Alliance.csv"
JsonFile == "p_Alliance.json"
TempCsv == "p_Alliance.csv.tmp"
TempJson == "p_Alliance.json.tmp"

\* File contents: what an earlier run left, a file whose write did not
\* finish, and the two documents of this call.
OldFile == [kind |-> "old", rows |-> <<>>]
PartialOutput == [kind |-> "partial", rows |-> <<>>]
CsvDocument(rows) == [kind |-> "csv", rows |-> [i \in DOMAIN rows |-> CsvRow(rows[i])]]
JsonDocument(rows) == [kind |-> "json", rows |-> [i \in DOMAIN rows |-> JsonRow(rows[i])]]

\* os.remove(path) when os.path.exists(path)
Remove(files, names) == [n \in DOMAIN files \ names |-> files[n]]

\* os.rename(src, dst)
Rename(files, src, dst) == (dst :> files[src]) @@ Remove(files, {src, dst})

NoAllianceResult == [returned |-> FALSE, success |-> FALSE, error |-> "none", total_records |-> 0]
AllianceResult(success, error, total) ==
    [returned |-> TRUE, success |-> success, error |-> error, total_records |-> total]

InitAlliance ==
    /\ apc = "start"
    /\ tmp_Alliance \in AllianceTables
    /\ alliance_data = <<>>
    /\ directory \in {<<>>, (CsvFile :> OldFile) @@ (JsonFile :> OldFile)}
    /\ alliance_result = NoAllianceResult
    /\ ImportIdle
    /\ ExportIdle
    /\ SchemaIdle
    /\ InferIdle
    /\ GroupIdle
    /\ GuiIdle

\* Lines 856-886: makedirs, validation, count, fetch.  makedirs, the count
\* and the fetch may raise (except block, lines 949-956); the validation
\* reports its own failures.
AllianceFetch ==
    /\ apc = "start"
    /\ \E outcome \in {"ok", "raised", "invalid"} :
         CASE outcome = "raised" ->
                /\ alliance_result' = AllianceResult(FALSE, "exception", 0)
                /\ apc' = "done"
                /\ UNCHANGED alliance_data
           [] outcome = "invalid" ->
                /\ alliance_result' = AllianceResult(FALSE, "invalid", 0)
                /\ apc' = "done"
                /\ UNCHANGED alliance_data
           [] outcome = "ok" ->
                IF Len(tmp_Alliance) = 0
                THEN /\ alliance_result' = AllianceResult(FALSE, "no_data", 0)
                     /\ apc' = "done"
                     /\ UNCHANGED alliance_data
                ELSE /\ alliance_data' = tmp_Alliance
                     /\ apc' = "csv"
                     /\ UNCHANGED alliance_result
    /\ UNCHANGED <<tmp_Alliance, directory, importVars, exportVars, schemaVars, inferVars, groupVars, guiVars>>

\* Lines 899-910: _export_to_csv into the temporary file.  It returns False
\* when open or a write raises; the cleanup removes the temporary file, and
\* os.remove may raise.
AllianceWriteCsv ==
    /\ apc = "csv"
    /\ \E outcome \in {"ok", "open_failed", "write_failed", "remove_failed"} :
         CASE outcome = "ok" ->
                /\ directory' = (TempCsv :> CsvDocument(alliance_data)) @@ directory
                /\ apc' = "json"
                /\ UNCHANGED alliance_result
           [] outcome = "open_failed" ->
                /\ directory' = directory
                /\ alliance_result' = AllianceResult(FALSE, "csv", Len(alliance_data))
                /\ apc' = "done"
           [] outcome = "write_failed" ->
                /\ directory' = Remove((TempCsv :> PartialOutput) @@ directory, {TempCsv})
                /\ alliance_result' = AllianceResult(FALSE, "csv", Len(alliance_data))
                /\ apc' = "done"
           [] outcome = "remove_failed" ->
                /\ directory' = (TempCsv :> PartialOutput) @@ directory
                /\ alliance_result' = AllianceResult(FALSE, "exception", 0)
                /\ apc' = "done"
    /\ UNCHANGED <<tmp_Alliance, alliance_data, importVars, exportVars, schemaVars, inferVars, groupVars, guiVars>>

\* Lines 912-925: _export_to_json into the temporary file, with the cleanup
\* of both temporary files.
AllianceWriteJson ==
    /\ apc = "json"
    /\ \E outcome \in {"ok", "open_failed", "write_failed", "remove_failed"} :
         CASE outcome = "ok" ->
                /\ directory' = (TempJson :> JsonDocument(alliance_data)) @@ directory
                /\ apc' = "rename_csv"
                /\ UNCHANGED alliance_result
           [] outcome = "open_failed" ->
                /\ directory' = Remove(directory, {TempCsv})
                /\ alliance_result' = AllianceResult(FALSE, "json", Len(alliance_data))
                /\ apc' = "done"
           [] outcome = "write_failed" ->
                /\ directory' = Remove((TempJson :> PartialOutput) @@ directory,
                                       {TempCsv, TempJson})
                /\ alliance_result' = AllianceResult(FALSE, "json", Len(alliance_data))
                /\ apc' = "done"
           [] outcome = "remove_failed" ->
                /\ directory' = (TempJson :> PartialOutput) @@ directory
                /\ alliance_result' = AllianceResult(FALSE, "exception", 0)
                /\ apc' = "done"
    /\ UNCHANGED <<tmp_Alliance, alliance_data, importVars, exportVars, schemaVars, inferVars, groupVars, guiVars>>

\* os.rename(temp_csv, csv_filepath) (line 927); it may raise.
AllianceRenameCsv ==
    /\ apc = "rename_csv"
    /\ \E raises \in BOOLEAN :
         IF raises
         THEN /\ alliance_result' = AllianceResult(FALSE, "exception", 0)
              /\ apc' = "done"
              /\ UNCHANGED directory
         ELSE /\ directory' = Rename(directory, TempCsv, CsvFile)
              /\ apc' = "rename_json"
              /\ UNCHANGED alliance_result
    /\ UNCHANGED <<tmp_Alliance, alliance_data, importVars, exportVars, schemaVars, inferVars, groupVars, guiVars>>

\* os.rename(temp_json, json_filepath) (line 928) and the success return
\* (lines 941-947); the rename may raise.
AllianceRenameJson ==
    /\ apc = "rename_json"
    /\ \E raises \in BOOLEAN :
         IF raises
         THEN /\ alliance_result' = AllianceResult(FALSE, "exception", 0)
              /\ UNCHANGED directory
         ELSE /\ directory' = Rename(directory, TempJson, JsonFile)
              /\ alliance_result' = AllianceResult(TRUE, "none", Len(alliance_data))
    /\ apc' = "done"
    /\ UNCHANGED <<tmp_Alliance, alliance_data, importVars, exportVars, schemaVars, inferVars, groupVars, guiVars>>

NextAlliance ==
    \/ AllianceFetch
    \/ AllianceWriteCsv
    \/ AllianceWriteJson
    \/ AllianceRenameCsv
    \/ AllianceRenameJson

SpecAlliance == InitAlliance /\ [][NextAlliance]_vars

\* The JSON documents of this call that are in the directory.
JsonDocuments ==
    {directory[n] : n \in {m \in DOMAIN directory : directory[m].kind = "json"}}

\* The number a run of decimal digits stands for.
RECURSIVE DigitsValue(_)
DigitsValue(cs) ==
    IF cs = <<>> THEN 0
    ELSE DigitsValue(SubSeq(cs, 1, Len(cs) - 1)) * 10 + (cs[Len(cs)] - 48)

\* cs is 'YYYY-MM-DD' for the date <<Y, M, D>>.
IsDateString(cs, f) ==
    /\ Len(cs) = 10
    /\ cs[5] = 45 /\ cs[8] = 45
    /\ \A i \in (1 .. 10) \ {5, 8} : cs[i] \in 48 .. 57
    /\ DigitsValue(SubSeq(cs, 1, 4)) = f[1]
    /\ DigitsValue(SubSeq(cs, 6, 7)) = f[2]
    /\ DigitsValue(SubSeq(cs, 9, 10)) = f[3]

\* cs is 'YYYY-MM-DD HH:MM:SS' for the datetime <<Y, M, D, h, m, s>>.
IsDateTimeString(cs, f) ==
    /\ Len(cs) = 19
    /\ IsDateString(SubSeq(cs, 1, 10), f)
    /\ cs[11] = 32 /\ cs[14] = 58 /\ cs[17] = 58
    /\ \A i \in {12, 13, 15, 16, 18, 19} : cs[i] \in 48 .. 57
    /\ DigitsValue(SubSeq(cs, 12, 13)) = f[4]
    /\ DigitsValue(SubSeq(cs, 15, 16)) = f[5]
    /\ DigitsValue(SubSeq(cs, 18, 19)) = f[6]

\* C23 (as claimed): in the JSON document of the tmp_Alliance export every
\* null cell of the 16 columns is null, every datetime cell is the string
\* 'YYYY-MM-DD HH:MM:SS' and every date cell the string 'YYYY-MM-DD'.
C23_NullCellsSerializedAsNull ==
    \A doc \in JsonDocuments :
        \A i \in DOMAIN alliance_data : \A c \in Range(COLUMNS) :
            LET stored == alliance_data[i][c]
                written == doc.rows[i][c]
            IN  /\ stored = Null => written = Null
                /\ stored.tag = "datetime" =>
                      written.tag = "chars" /\ IsDateTimeString(written.p, stored.p)
                /\ stored.tag = "date" =>
                      written.tag = "chars" /\ IsDateString(written.p, stored.p)

\* The call has created the final file of that name.
Created(name, kind) == name \in DOMAIN directory /\ directory[name].kind = kind

\* C24 (as claimed): when export_to_files has returned, it has created both
\* final files or neither, and it reports success only when it created both.
C24_BothFilesOrNeither ==
    apc = "done" =>
        /\ Created(CsvFile, "csv") <=> Created(JsonFile, "json")
        /\ alliance_result.success => (Created(CsvFile, "csv") /\ Created(JsonFile, "json"))

(***************************************************************************)
(* build_json_structure as a function of its argument (SpecGroup): the     *)
(* rows come in any order, and a row may come twice.                       *)
(***************************************************************************)
GroupRowPool ==
    { Row(e, a, 10 * e + a, IF a = 1 THEN Str(4) ELSE Null, 1) :
        e \in EntityIds, a \in {1, 2} }

GroupInputs == UNION { [1 .. n -> GroupRowPool] : n \in 1 .. MaxGroupRows }

InitGroup ==
    /\ gpc = "input"
    /\ input_records \in GroupInputs
    /\ document = <<>>
    /\ ImportIdle
    /\ ExportIdle
    /\ SchemaIdle
    /\ InferIdle
    /\ AllianceIdle
    /\ GuiIdle

BuildJsonStructure ==
    /\ gpc = "input"
    /\ document' = build_json_structure(input_records)
    /\ gpc' = "built"
    /\ UNCHANGED <<input_records, importVars, exportVars, schemaVars, inferVars,
                   allianceVars, guiVars>>

NextGroup == BuildJsonStructure

SpecGroup == InitGroup /\ [][NextGroup]_vars

\* The positions of the input rows of one entity, ascending.
PositionsOf(entity_id) ==
    Ascending({i \in DOMAIN input_records : input_records[i].EntityID = entity_id})

\* C26: the document has one Entity group per distinct EntityID of the
\* input, in ascending EntityID order; the items of a group are the rows of
\* that entity in their input order; there are as many items as rows.
C26_GroupsAscendingItemsInInputOrder ==
    gpc = "built" =>
        LET ids == Ascending({input_records[i].EntityID : i \in DOMAIN input_records})
            groups == document.Entities
        IN  /\ Len(groups) = Len(ids)
            /\ \A g \in DOMAIN groups :
                  LET pos == PositionsOf(ids[g])
                      items == groups[g].Entity
                  IN  /\ Len(items) = Len(pos)
                      /\ \A k \in DOMAIN items :
                            /\ items[k].applicationId = input_records[pos[k]].TargetID
                            /\ items[k].system = input_records[pos[k]].ApplicationID
            /\ Len(Items(document)) = Len(input_records)

\* C26 witness: the rows of entity 2 came around a row of entity 1, the
\* second of them with the smaller ApplicationID; entity 1 is the first group
\* and entity 2 keeps its two rows in the order of the input.
C26_Witness ==
    /\ gpc = "built"
    /\ Len(input_records) = 3
    /\ input_records[1].EntityID = 2 /\ input_records[1].ApplicationID = 2
    /\ input_records[2].EntityID = 1
    /\ input_records[3].EntityID = 2 /\ input_records[3].ApplicationID = 1
    /\ Len(document.Entities) = 2
    /\ Len(document.Entities[1].Entity) = 1
    /\ document.Entities[2].Entity[1].system = 2
    /\ document.Entities[2].Entity[2].system = 1

(***************************************************************************)
(* ImporterGUI (SpecGui).  The Tk main loop runs one event handler at a    *)
(* time; run_connection_test and the operation workers run in threads of   *)
(* their own, so their steps interleave with the handlers.  The content of *)
(* the five connection fields is one value; the three operation buttons    *)
(* are always configured together.                                         *)
(***************************************************************************)
FieldValues == 1 .. MaxFieldValues
Operations == {"import", "export", "tmp_alliance"}

\* update_button_states (lines 1141-1150)
update_button_states(verified, dir_chosen) ==
    IF verified /\ dir_chosen THEN "normal" ELSE "disabled"

\* s without its i-th element
RemoveAt(s, i) == SubSeq(s, 1, i - 1) \o SubSeq(s, i + 1, Len(s))

\* After __init__ (lines 982-1003): nothing verified, no directory, the
\* operation buttons disabled.
InitGui ==
    /\ connection_verified = FALSE
    /\ directory_var = FALSE
    /\ conn_fields \in FieldValues
    /\ operation_btns = update_button_states(FALSE, FALSE)
    /\ test_conn_btn = "normal"
    /\ tests = <<>>
    /\ workers = <<>>
    /\ verified_with = 0
    /\ ImportIdle
    /\ ExportIdle
    /\ SchemaIdle
    /\ InferIdle
    /\ AllianceIdle
    /\ GroupIdle

\* on_connection_field_changed (lines 1136-1140), after a key was released
\* in a connection field
OnConnectionFieldChanged ==
    /\ \E v \in FieldValues \ {conn_fields} : conn_fields' = v
    /\ connection_verified' = FALSE
    /\ operation_btns' = update_button_states(FALSE, directory_var)
    /\ UNCHANGED <<directory_var, test_conn_btn, tests, workers, verified_with>>
    /\ UNCHANGED <<importVars, exportVars, schemaVars, inferVars, allianceVars, groupVars>>

\* browse_directory (lines 1211-1215) with a directory chosen; the trace on
\* directory_var (line 1070) calls update_button_states.
BrowseDirectory ==
    /\ directory_var' = TRUE
    /\ operation_btns' = update_button_states(connection_verified, TRUE)
    /\ UNCHANGED <<connection_verified, conn_fields, test_conn_btn, tests, workers,
                   verified_with>>
    /\ UNCHANGED <<importVars, exportVars, schemaVars, inferVars, allianceVars, groupVars>>

\* test_connection (lines 1151-1167): a click on the enabled button starts a
\* thread.
TestConnection ==
    /\ test_conn_btn = "normal"
    /\ Len(tests) < MaxThreads
    /\ test_conn_btn' = "disabled"
    /\ tests' = Append(tests, [at |-> "connect", with |-> 0, ok |-> FALSE])
    /\ UNCHANGED <<connection_verified, directory_var, conn_fields, operation_btns,
                   workers, verified_with>>
    /\ UNCHANGED <<importVars, exportVars, schemaVars, inferVars, allianceVars, groupVars>>

\* run_connection_test, lines 1171-1180: read the fields and connect.
ConnectionTestConnect ==
    /\ \E i \in DOMAIN tests, ok \in BOOLEAN :
         /\ tests[i].at = "connect"
         /\ tests' = [tests EXCEPT ![i] = [at |-> "result", with |-> conn_fields, ok |-> ok]]
    /\ UNCHANGED <<connection_verified, directory_var, conn_fields, operation_btns,
                   test_conn_btn, workers, verified_with>>
    /\ UNCHANGED <<importVars, exportVars, schemaVars, inferVars, allianceVars, groupVars>>

\* run_connection_test, lines 1182-1204: set connection_verified and show
\* the message box.
ConnectionTestResult ==
    /\ \E i \in DOMAIN tests :
         /\ tests[i].at = "result"
         /\ connection_verified' = tests[i].ok
         /\ verified_with' = IF tests[i].ok THEN tests[i].with ELSE verified_with
         /\ tests' = [tests EXCEPT ![i].at = "finally"]
    /\ UNCHANGED <<directory_var, conn_fields, operation_btns, test_conn_btn, workers>>
    /\ UNCHANGED <<importVars, exportVars, schemaVars, inferVars, allianceVars, groupVars>>

\* run_connection_test, the finally block (lines 1206-1209)
ConnectionTestFinally ==
    /\ \E i \in DOMAIN tests :
         /\ tests[i].at = "finally"
         /\ tests' = RemoveAt(tests, i)
    /\ test_conn_btn' = "normal"
    /\ operation_btns' = update_button_states(connection_verified, directory_var)
    /\ UNCHANGED <<connection_verified, directory_var, conn_fields, workers, verified_with>>
    /\ UNCHANGED <<importVars, exportVars, schemaVars, inferVars, allianceVars, groupVars>>

\* execute_import, execute_export, execute_tmp_alliance_export (lines
\* 1276-1331, 1505-1541): a click on an enabled operation button; when the
\* validation passes, the buttons are disabled and the worker thread starts.
ExecuteOperation ==
    /\ operation_btns = "normal"
    /\ connection_verified /\ directory_var
    /\ Len(workers) < MaxThreads
    /\ \E op \in Operations : workers' = Append(workers, op)
    /\ operation_btns' = "disabled"
    /\ test_conn_btn' = "disabled"
    /\ UNCHANGED <<connection_verified, directory_var, conn_fields, tests, verified_with>>
    /\ UNCHANGED <<importVars, exportVars, schemaVars, inferVars, allianceVars, groupVars>>

\* The finally block of run_import, run_export, run_tmp_alliance_export
\* (lines 1415-1420): all buttons back to normal.
WorkerFinally ==
    /\ \E i \in DOMAIN workers : workers' = RemoveAt(workers, i)
    /\ operation_btns' = "normal"
    /\ test_conn_btn' = "normal"
    /\ UNCHANGED <<connection_verified, directory_var, conn_fields, tests, verified_with>>
    /\ UNCHANGED <<importVars, exportVars, schemaVars, inferVars, allianceVars, groupVars>>

NextGui ==
    \/ OnConnectionFieldChanged
    \/ BrowseDirectory
    \/ TestConnection
    \/ ConnectionTestConnect
    \/ ConnectionTestResult
    \/ ConnectionTestFinally
    \/ ExecuteOperation
    \/ WorkerFinally

SpecGui == InitGui /\ [][NextGui]_vars

\* C27 (as claimed): at most one operation worker runs at any time, and
\* while one runs the three operation buttons are disabled.
C27_OneWorkerButtonsDisabled ==
    /\ Len(workers) <= 1
    /\ workers # <<>> => operation_btns = "disabled"

\* C28 (as claimed): whenever connection_verified is true, the connection
\* fields hold the values the most recent successful connection test used.
C28_VerifiedMeansCurrentFields ==
    connection_verified => conn_fields = verified_with

\* C29 (as claimed): on every return path of export_to_json_files, the
\* files_created count of the result is the number of batch files the call
\* wrote to disk.
C29_CountIsFilesWritten ==
    xpc = "done" => result.files_created = Len(files_created)

\* The precedence order of the column types, lowest first (the docstring of
\* _determine_column_type, lines 52-59).
TypeRank(t) ==
    CASE t = "BOOLEAN" -> 1
      [] t = "INT" -> 2
      [] t = "BIGINT" -> 3
      [] t = "DOUBLE" -> 4
      [] t = "VARCHAR(255)" -> 5
      [] t = "TEXT" -> 6
      [] t = "JSON" -> 7

\* The values in the order p gives them
Reordered(values, p) == [i \in DOMAIN values |-> values[p[i]]]

\* C30: the type of a column is at or above the type of every part of it
\* that has a non-null value (A the first k values, B the rest), in the
\* order BOOLEAN < INT < BIGINT < DOUBLE < VARCHAR(255) < TEXT < JSON, and
\* every reordering of the values has the same type.
C30_TypeMonotoneAndOrderFree ==
    tpc = "typed" =>
        /\ \A k \in DOMAIN column_values :
             LET A == SubSeq(column_values, 1, k)
             IN  (\E i \in 1 .. k : A[i] # Null) =>
                     TypeRank(determine_column_type(A)) <= TypeRank(column_type)
        /\ \A p \in Permutations(DOMAIN column_values) :
             determine_column_type(Reordered(column_values, p)) = column_type

\* A column whose first value alone is an INT, extended by a DOUBLE and a
\* string, has risen to VARCHAR(255).
C30_Witness ==
    /\ tpc = "typed"
    /\ Len(column_values) = 3
    /\ determine_column_type(SubSeq(column_values, 1, 1)) = "INT"
    /\ determine_column_type(SubSeq(column_values, 1, 2)) = "DOUBLE"
    /\ column_type = "VARCHAR(255)"

====
